---- MODULE Spec2Model ----
(***************************************************************************)
(* Notification resolver of the wedding-planning application:             *)
(* NotificationsWidget merges the manually authored notifications and the *)
(* automated campaign rules with the signed-in user's read/deleted state  *)
(* (users/{uid}/notificationStates) into one feed.                        *)
(*                                                                         *)
(* Time is a count of instants (Timestamp.toMillis()); a calendar day is  *)
(* DayLen instants long and addDays moves an instant by whole days.       *)
(* An optional value (a field that may be undefined, an object that may   *)
(* be null) is a sequence of length 0 or 1.  A notificationStates         *)
(* document is the set of its fields that are true: the client only ever  *)
(* writes true.                                                            *)
(*                                                                         *)
(* ImageUploader reads a chosen file, scales it onto a canvas and hands   *)
(* the JPEG data URL to onUploadComplete.  A string (data URL, remote     *)
(* URL, '') is modelled by its kind and its length.                       *)
(*                                                                         *)
(* ImageSearchDialog and the searchUnsplashImages server action, the list *)
(* pages (HomeTrousseauClient, InspirationsClient) and GiftsClient are    *)
(* modelled with their handlers split at each await where another client  *)
(* or a failure of the store can come in between.                          *)
(***************************************************************************)
EXTENDS Integers, Sequences, FiniteSets, TLC

\* Bounds of the model.
MaxTime == 4
MaxOffset == 1
DayLen == 2

\* ---------------------------------------------------------------- types
AppRole == {"super_admin", "bride", "groom", "collaborator", "guest"}

NotificationTarget == {"all", "couples"}

TriggerType == {"relativeToSignup", "relativeToWeddingDate"}

StateField == {"read", "deleted"}

NotificationIds == {"n1"}

CampaignIds == {"c1"}

SourceIds == NotificationIds \cup CampaignIds

Undefined == <<>>

Has(opt) == opt # <<>>

Val(opt) == opt[1]

Offsets == (0 - MaxOffset)..MaxOffset

\* Content is authored before the widget is mounted (the clock starts at 1).
AuthoringInstants == {0, 1}

Notification == [id : NotificationIds, target : NotificationTarget, createdAt : AuthoringInstants]

NotificationCampaign ==
    [id : CampaignIds, triggerType : TriggerType, offsetDays : Offsets,
     isActive : BOOLEAN, createdAt : AuthoringInstants]

AppUser == [role : AppRole \cup {"undefined"}, createdAt : {Undefined, <<1>>}]

WeddingData == [weddingDate : {Undefined, <<2>>}]

\* Record<string, UserNotificationState>: id -> the fields that are true.
UserNotificationStates == UNION {[S -> (SUBSET StateField) \ {{}}] : S \in SUBSET SourceIds}

NoStates == [id \in {} |-> {}]

VARIABLES
    now,                    \* the wall clock
    today,                  \* the clock when mergedNotifications was last computed
    user,                   \* useAuthentication().user
    userProfile,            \* useWedding().userProfile
    weddingData,            \* useWedding().weddingData
    globalNotifications,    \* useWedding().notifications
    notificationCampaigns,  \* useWedding().notificationCampaigns
    docs,                   \* users/{uid}/notificationStates in the store
    userStates,             \* the widget's copy of docs (last snapshot)
    loadingStates,          \* the widget's loadingStates flag
    consoleErrors,          \* TRUE once a handler's catch block has run console.error
    subscription,           \* the notificationStates listener: "live" or "failed"
    inflight,               \* setDoc calls awaited and not yet settled: <<id, field>>
    settled,                \* setDoc calls that resolved: <<id, field>>
    toast,                  \* the last toast shown to the user: "none", "error", "success"
    isLoading,              \* ImageUploader.isLoading
    previewUrl,             \* ImageUploader.previewUrl
    completions,            \* the arguments onUploadComplete was called with, in order
    stage,                  \* ImageUploader: "idle", "reading" (FileReader), "decoding" (Image)
    img,                    \* the decoded image's [width, height]
    canvas,                 \* the canvas' [width, height]
    fileInput,              \* the file held by the <input type="file">
    base64String,           \* the length of the last canvas.toDataURL() result
    searchQuery,            \* ImageSearchDialog.searchQuery, a sequence of UTF-16 code units
    searchResults,          \* ImageSearchDialog.searchResults
    isSearching,            \* ImageSearchDialog.isSearching
    currentPage,            \* ImageSearchDialog.currentPage
    call,                   \* the searchUnsplashImages call handleSearch is awaiting
    result,                 \* how the last searchUnsplashImages call ended
    moreLoaded,             \* load-more requests that succeeded since the last new search
    page,                   \* the list page mounted: "homeTrousseau" or "inspirations"
    categories,             \* ids of the category documents of the page's wedding
    items,                  \* item (or inspiration) id -> categoryId, for the documents stored
    usedIds,                \* document ids the store has handed out so far
    deletedCategories,      \* categories whose handleDeleteCategory has completed
    pageProfile,            \* useWedding().userProfile of the page
    viewingInspiration,     \* InspirationsClient.viewingInspiration
    comments,               \* the comment documents written, in order
    deleteBatch,            \* handleDeleteCategory between getDocs and batch.commit
    unhandledRejection,     \* TRUE once a handler's promise rejected with no catch
    giftSuggestions,        \* store: suggestion id -> claimed
    receivedGifts,          \* store: the receivedGifts documents
    homeTrousseauItems,     \* store: the gifted homeTrousseauItems documents
    giftCategories,         \* store: ids of the categories named "Presentes Recebidos"
    suggestions,            \* per client: its snapshot of giftSuggestions
    homeTrousseauCategories, \* per client: its snapshot of giftCategories
    suggestionToReceive,    \* per client: GiftsClient.suggestionToReceive
    submitting,             \* per client: where handleReceivedGiftSubmit stands
    giftCategoryId,         \* per client: the result of getOrCreateGiftCategory
    attempt                 \* per client: its submits so far and what the last one did

uploaderVars ==
    <<isLoading, previewUrl, completions, stage, img, canvas, fileInput, base64String>>

searchVars ==
    <<searchQuery, searchResults, isSearching, currentPage, call, result, moreLoaded>>

listVars ==
    <<page, categories, items, usedIds, deletedCategories, pageProfile,
      viewingInspiration, comments, deleteBatch, unhandledRejection>>

\* The state of the components other than NotificationsWidget and ImageUploader.
giftVars ==
    <<giftSuggestions, receivedGifts, homeTrousseauItems, giftCategories, suggestions,
      homeTrousseauCategories, suggestionToReceive, submitting, giftCategoryId, attempt>>

pagesVars == <<searchVars, listVars, giftVars>>

vars ==
    <<now, today, user, userProfile, weddingData, globalNotifications,
      notificationCampaigns, docs, userStates, loadingStates, consoleErrors,
      subscription, inflight, settled, toast,
      isLoading, previewUrl, completions, stage, img, canvas, fileInput,
      base64String, pagesVars>>

\* ------------------------------------------------------------ resolver
\* userStates[id]?.field
Flag(states, id, field) == id \in DOMAIN states /\ field \in states[id]

\* userProfile?.role
UserRole == IF Has(userProfile) THEN Val(userProfile).role ELSE "undefined"

\* userProfile?.createdAt
ProfileCreatedAt == IF Has(userProfile) THEN Val(userProfile).createdAt ELSE Undefined

\* weddingData?.weddingDate
WeddingDate == IF Has(weddingData) THEN Val(weddingData).weddingDate ELSE Undefined

\* Mutant: the offset is added as instants, not as whole days.
addDays_AsInstants(date, amount) == date + amount

addDays(date, amount) == date + amount * DayLen

\* Mutant: a triggered campaign expires a day after its trigger date.
isPast_Expires(date) == date < today /\ today - date <= DayLen

\* Mutant: a date equal to the evaluation instant counts as past.
isPast_OrNow(date) == date <= today

isPast(date) == date < today

\* Mutant: the target is not looked at.
NotificationFilter_IgnoresTarget(notif) == ~Flag(userStates, notif.id, "deleted")

NotificationFilter(notif) ==
    IF Flag(userStates, notif.id, "deleted") THEN FALSE
    ELSE IF notif.target = "couples"
         THEN UserRole = "bride" \/ UserRole = "groom" \/ UserRole = "super_admin"
         ELSE TRUE

\* Mutant: every item is attached as unread.
IsReadOf_AlwaysUnread(id) == FALSE

IsReadOf(id) == Flag(userStates, id, "read")

ToMerged(src, campaign) ==
    [id |-> src.id, createdAt |-> src.createdAt, isRead |-> IsReadOf(src.id),
     isCampaign |-> campaign]

MapMerged(s, campaign) == [i \in 1..Len(s) |-> ToMerged(s[i], campaign)]

manualNotifications == MapMerged(SelectSeq(globalNotifications, NotificationFilter), FALSE)

\* Mutant: the user's deleted flag is not looked at.
CampaignFilter_IgnoresDeleted(c) == c.isActive

CampaignFilter(c) == c.isActive /\ ~Flag(userStates, c.id, "deleted")

\* Mutant: without a wedding date the signup date is used.
triggerDate_FallsBackToSignup(campaign) ==
    IF campaign.triggerType = "relativeToWeddingDate" /\ Has(WeddingDate)
    THEN <<addDays(Val(WeddingDate), campaign.offsetDays)>>
    ELSE IF Has(ProfileCreatedAt)
         THEN <<addDays(Val(ProfileCreatedAt), campaign.offsetDays)>>
         ELSE Undefined

\* The optional trigger date of a campaign (null when no branch applies).
triggerDate(campaign) ==
    IF campaign.triggerType = "relativeToSignup" /\ Has(ProfileCreatedAt)
    THEN <<addDays(Val(ProfileCreatedAt), campaign.offsetDays)>>
    ELSE IF campaign.triggerType = "relativeToWeddingDate" /\ Has(WeddingDate)
         THEN <<addDays(Val(WeddingDate), campaign.offsetDays)>>
         ELSE Undefined

CampaignFires(c) ==
    CampaignFilter(c) /\ Has(triggerDate(c)) /\ isPast(Val(triggerDate(c)))

campaignNotifications ==
    IF Has(ProfileCreatedAt)
    THEN MapMerged(SelectSeq(notificationCampaigns, CampaignFires), TRUE)
    ELSE <<>>

\* Array.prototype.sort((a, b) => b.createdAt.toMillis() - a.createdAt.toMillis()):
\* a stable sort, descending by createdAt.
RECURSIVE InsertDesc(_, _)
InsertDesc(s, x) ==
    IF s = <<>> THEN <<x>>
    ELSE IF Head(s).createdAt >= x.createdAt
         THEN <<Head(s)>> \o InsertDesc(Tail(s), x)
         ELSE <<x>> \o s

\* Mutant: the concatenation is returned as it is.
SortByCreatedAtDesc_Unsorted(s) == s

RECURSIVE SortByCreatedAtDesc(_)
SortByCreatedAtDesc(s) ==
    IF s = <<>> THEN <<>>
    ELSE InsertDesc(SortByCreatedAtDesc(SubSeq(s, 1, Len(s) - 1)), s[Len(s)])

mergedNotifications == SortByCreatedAtDesc(manualNotifications \o campaignNotifications)

unreadCount == Len(SelectSeq(mergedNotifications, LAMBDA n : ~n.isRead))

FeedIds == {mergedNotifications[i].id : i \in 1..Len(mergedNotifications)}

loading == loadingStates

\* ------------------------------------------------------------- actions
\* The clock advances; nothing the memo depends on changes.
Tick ==
    /\ now < MaxTime
    /\ now' = now + 1
    /\ UNCHANGED <<today, user, userProfile, weddingData, globalNotifications,
                   notificationCampaigns, docs, userStates, loadingStates, consoleErrors>>
    /\ UNCHANGED <<subscription, inflight, settled, toast>>
    /\ UNCHANGED <<uploaderVars, pagesVars>>

NotificationArrays == {<<>>} \cup {<<n>> : n \in Notification}

CampaignArrays == {<<>>} \cup {<<c>> : c \in NotificationCampaign}

\* Mutant: setDoc without merge replaces the document.
SetDocMerge_Overwrite(store, id, field) == (id :> {field}) @@ store

\* Mutant: the write flips the field.
SetDocMerge_Toggle(store, id, field) ==
    IF id \in DOMAIN store
    THEN [store EXCEPT ![id] = IF field \in @ THEN @ \ {field} ELSE @ \cup {field}]
    ELSE store @@ (id :> {field})

\* setDoc(stateRef, {[field]: true}, {merge: true})
SetDocMerge(store, id, field) ==
    IF id \in DOMAIN store
    THEN [store EXCEPT ![id] = @ \cup {field}]
    ELSE store @@ (id :> {field})

\* The handlers are reachable only from the buttons of a displayed item.
Displayed(id) == ~loading /\ id \in FeedIds

\* Mutant: on a snapshot the widget creates a record for every source.
OnSnapshot_EagerRecords ==
    /\ Has(user)
    /\ subscription = "live"
    /\ loadingStates \/ userStates # docs
    /\ docs' = [id \in SourceIds |-> IF id \in DOMAIN docs THEN docs[id] ELSE {}]
    /\ userStates' = docs'
    /\ loadingStates' = FALSE
    /\ today' = now
    /\ UNCHANGED <<now, user, userProfile, weddingData, globalNotifications,
                   notificationCampaigns, consoleErrors>>
    /\ UNCHANGED <<subscription, inflight, settled, toast>>
    /\ UNCHANGED <<uploaderVars, pagesVars>>

\* onSnapshot(userStatesRef, ...): the widget receives the current documents.
OnSnapshot ==
    /\ Has(user)
    /\ subscription = "live"
    /\ loadingStates \/ userStates # docs
    /\ userStates' = docs
    /\ loadingStates' = FALSE
    /\ today' = now
    /\ UNCHANGED <<now, user, userProfile, weddingData, globalNotifications,
                   notificationCampaigns, docs, consoleErrors>>
    /\ UNCHANGED <<subscription, inflight, settled, toast>>
    /\ UNCHANGED <<uploaderVars, pagesVars>>

\* The write of a handler: setDoc resolves, or rejects and the catch block logs.
Write(id, field) ==
    \/ /\ docs' = SetDocMerge(docs, id, field)
       /\ settled' = settled \cup {<<id, field>>}
       /\ UNCHANGED consoleErrors
    \/ /\ consoleErrors' = TRUE
       /\ UNCHANGED <<docs, settled>>

handleMarkAsRead(notificationId) ==
    /\ Displayed(notificationId)
    /\ IF ~Has(user) \/ Flag(userStates, notificationId, "read")
       THEN UNCHANGED <<docs, consoleErrors, settled>>
       ELSE Write(notificationId, "read")
    /\ UNCHANGED <<now, today, user, userProfile, weddingData, globalNotifications,
                   notificationCampaigns, userStates, loadingStates>>
    /\ UNCHANGED <<subscription, inflight, toast>>
    /\ UNCHANGED <<uploaderVars, pagesVars>>

handleDelete(notificationId) ==
    /\ Displayed(notificationId)
    /\ IF ~Has(user)
       THEN UNCHANGED <<docs, consoleErrors, settled>>
       ELSE Write(notificationId, "deleted")
    /\ UNCHANGED <<now, today, user, userProfile, weddingData, globalNotifications,
                   notificationCampaigns, userStates, loadingStates>>
    /\ UNCHANGED <<subscription, inflight, toast>>
    /\ UNCHANGED <<uploaderVars, pagesVars>>

MarkAsRead == \E id \in SourceIds : handleMarkAsRead(id)

Delete == \E id \in SourceIds : handleDelete(id)

\* The profiles the widget is followed under: none, a couple member with an
\* account-creation timestamp, a guest without one.
WidgetProfiles ==
    {Undefined, <<[role |-> "bride", createdAt |-> <<1>>]>>,
     <<[role |-> "guest", createdAt |-> Undefined]>>}

\* The listener fails before its first snapshot (the store refuses the read).
\* onSnapshot was given no error callback: nothing in the widget runs, and the
\* listener is ended.
SnapshotError ==
    /\ Has(user)
    /\ subscription = "live"
    /\ loadingStates
    /\ subscription' = "failed"
    /\ UNCHANGED <<now, today, user, userProfile, weddingData, globalNotifications,
                   notificationCampaigns, docs, userStates, loadingStates, consoleErrors>>
    /\ UNCHANGED <<inflight, settled, toast>>
    /\ UNCHANGED <<uploaderVars, pagesVars>>

\* ImageUploader as mounted: no file chosen, no preview.
UploaderIdle ==
    /\ isLoading = FALSE
    /\ previewUrl = Undefined
    /\ completions = <<>>
    /\ stage = "idle"
    /\ img = Undefined
    /\ canvas = Undefined
    /\ fileInput = Undefined
    /\ base64String = Undefined

\* ImageSearchDialog as mounted.
SearchIdle ==
    /\ searchQuery = <<>>
    /\ searchResults = <<>>
    /\ isSearching = FALSE
    /\ currentPage = 1
    /\ call = Undefined
    /\ result = Undefined
    /\ moreLoaded = 0

\* A list page of a wedding without documents, nobody signed in.
ListIdle ==
    /\ page = "inspirations"
    /\ categories = {}
    /\ items = NoStates
    /\ usedIds = {}
    /\ deletedCategories = {}
    /\ pageProfile = Undefined
    /\ viewingInspiration = Undefined
    /\ comments = <<>>
    /\ deleteBatch = Undefined
    /\ unhandledRejection = FALSE

Clients == {"a", "b"}

SuggestionIds == {"s1"}

\* GiftsClient of every client as mounted, over a wedding without gift documents.
GiftsIdle ==
    /\ giftSuggestions = [x \in SuggestionIds |-> FALSE]
    /\ receivedGifts = {}
    /\ homeTrousseauItems = {}
    /\ giftCategories = {}
    /\ suggestions = [u \in Clients |-> [x \in SuggestionIds |-> FALSE]]
    /\ homeTrousseauCategories = [u \in Clients |-> {}]
    /\ suggestionToReceive = [u \in Clients |-> Undefined]
    /\ submitting = [u \in Clients |-> "no"]
    /\ giftCategoryId = [u \in Clients |-> Undefined]
    /\ attempt = [u \in Clients |-> [n |-> 0, created |-> Undefined, ended |-> "no"]]

PagesIdle == SearchIdle /\ ListIdle /\ GiftsIdle

\* After the first run of the subscription effect: no user, nothing to load.
Init ==
    /\ now = 1
    /\ today = 1
    /\ user \in {Undefined, <<"u1">>}
    /\ userProfile \in WidgetProfiles
    /\ weddingData \in {Undefined, <<[weddingDate |-> <<2>>]>>}
    /\ globalNotifications \in NotificationArrays
    /\ notificationCampaigns \in CampaignArrays
    /\ docs = NoStates
    /\ userStates = NoStates
    /\ loadingStates = Has(user)
    /\ consoleErrors = FALSE
    /\ subscription = "live"
    /\ inflight = {}
    /\ settled = {}
    /\ toast = "none"
    /\ UploaderIdle
    /\ PagesIdle

Next == Tick \/ OnSnapshot \/ SnapshotError \/ MarkAsRead \/ Delete

Spec == Init /\ [][Next]_vars

\* ------------------------------------------- the handlers, split at the await
\* Spec takes a handler and its write as one step.  Here a handler runs up to
\* `await setDoc(...)` and the store settles the writes in flight in any order.
handleMarkAsReadCall(notificationId) ==
    /\ Displayed(notificationId)
    /\ Has(user)
    /\ ~Flag(userStates, notificationId, "read")
    /\ <<notificationId, "read">> \notin inflight
    /\ inflight' = inflight \cup {<<notificationId, "read">>}
    /\ UNCHANGED <<now, today, user, userProfile, weddingData, globalNotifications,
                   notificationCampaigns, docs, userStates, loadingStates, consoleErrors>>
    /\ UNCHANGED <<subscription, settled, toast>>
    /\ UNCHANGED <<uploaderVars, pagesVars>>

handleDeleteCall(notificationId) ==
    /\ Displayed(notificationId)
    /\ Has(user)
    /\ <<notificationId, "deleted">> \notin inflight
    /\ inflight' = inflight \cup {<<notificationId, "deleted">>}
    /\ UNCHANGED <<now, today, user, userProfile, weddingData, globalNotifications,
                   notificationCampaigns, docs, userStates, loadingStates, consoleErrors>>
    /\ UNCHANGED <<subscription, settled, toast>>
    /\ UNCHANGED <<uploaderVars, pagesVars>>

\* The store applies a write in flight and the await resolves.
setDocResolves(w) ==
    /\ w \in inflight
    /\ inflight' = inflight \ {w}
    /\ docs' = SetDocMerge(docs, w[1], w[2])
    /\ settled' = settled \cup {w}
    /\ UNCHANGED <<now, today, user, userProfile, weddingData, globalNotifications,
                   notificationCampaigns, userStates, loadingStates, consoleErrors>>
    /\ UNCHANGED <<subscription, toast>>
    /\ UNCHANGED <<uploaderVars, pagesVars>>

\* The store refuses a write in flight: the await throws, the catch block logs.
setDocRejects(w) ==
    /\ w \in inflight
    /\ inflight' = inflight \ {w}
    /\ consoleErrors' = TRUE
    /\ UNCHANGED <<now, today, user, userProfile, weddingData, globalNotifications,
                   notificationCampaigns, docs, userStates, loadingStates>>
    /\ UNCHANGED <<subscription, settled, toast>>
    /\ UNCHANGED <<uploaderVars, pagesVars>>

InitRace ==
    /\ now = 1
    /\ today = 1
    /\ user = <<"u1">>
    /\ userProfile = <<[role |-> "bride", createdAt |-> <<1>>]>>
    /\ weddingData = <<[weddingDate |-> <<2>>]>>
    /\ globalNotifications \in NotificationArrays
    /\ notificationCampaigns \in CampaignArrays
    /\ docs = NoStates
    /\ userStates = NoStates
    /\ loadingStates = TRUE
    /\ consoleErrors = FALSE
    /\ subscription = "live"
    /\ inflight = {}
    /\ settled = {}
    /\ toast = "none"
    /\ UploaderIdle
    /\ PagesIdle

NextRace ==
    \/ OnSnapshot
    \/ \E id \in SourceIds : handleMarkAsReadCall(id)
    \/ \E id \in SourceIds : handleDeleteCall(id)
    \/ \E w \in SourceIds \X StateField : setDocResolves(w)
    \/ \E w \in SourceIds \X StateField : setDocRejects(w)

SpecRace == InitRace /\ [][NextRace]_vars

\* ------------------------------------------------------------ ImageUploader
MaxCompletions == 2

MAX_WIDTH == 1920
MAX_HEIGHT == 1080

MiB == 1024 * 1024

\* event.target.files?.[0]: a file, known here by its size in bytes.
Files == {[size |-> n] : n \in {1, 5 * MiB, 5 * MiB + 1, 6 * MiB}}

\* img.width, img.height of a decoded image.
ImageSizes ==
    {[width |-> z[1], height |-> z[2]] :
        z \in {<<800, 600>>, <<1920, 1080>>, <<1900, 1500>>, <<2000, 1000>>,
               <<2000, 999>>, <<2000, 1900>>, <<4000, 3000>>, <<1921, 1>>,
               <<1000, 2000>>, <<1080, 1920>>, <<1081, 1081>>, <<22, 1584>>}}

\* canvas.toDataURL('image/jpeg', QUALITY).length
EncodedLengths == {1024, MiB, MiB + 1, 2 * MiB}

\* The strings the component handles.
DataUrl(n) == [kind |-> "dataUrl", length |-> n]
EmptyString == [kind |-> "empty", length |-> 0]
RemoteUrls == {[kind |-> "remote", length |-> 64]}

\* Mutant: no ceiling on the original file.
TooLargeFile_Never(file) == FALSE

\* file.size > 5 * 1024 * 1024
TooLargeFile(file) == file.size > 5 * 1024 * 1024

\* Mutant: no ceiling on the encoded payload.
TooLargeEncoded_Never(sizeInBytes) == FALSE

\* sizeInBytes > maxSizeInBytes
TooLargeEncoded(sizeInBytes) == sizeInBytes > 1 * 1024 * 1024

\* The <<x, d>> among ImageSizes for which the double x * (bound / d) is one
\* ulp under a whole quotient: 22 * (1080 / 1584) = 14.999999999999998.
OneUlpUnder == {<<22, 1584>>}

\* x *= bound / d in doubles, then stored in canvas.width / canvas.height
\* (an unsigned long: the fraction is dropped).
ScaleTo(x, bound, d) ==
    IF <<x, d>> \in OneUlpUnder THEN (x * bound) \div d - 1 ELSE (x * bound) \div d

\* Mutant: every image is scaled to MAX_WIDTH, smaller ones are enlarged.
Resize_AlwaysScales(width, height) ==
    [width |-> MAX_WIDTH, height |-> (height * MAX_WIDTH) \div width]

\* The dimension calculation, as the canvas ends up holding it.
Resize(width, height) ==
    IF width > height
    THEN IF width > MAX_WIDTH
         THEN [width |-> MAX_WIDTH, height |-> ScaleTo(height, MAX_WIDTH, width)]
         ELSE [width |-> width, height |-> height]
    ELSE IF height > MAX_HEIGHT
         THEN [width |-> ScaleTo(width, MAX_HEIGHT, height), height |-> MAX_HEIGHT]
         ELSE [width |-> width, height |-> height]

WidgetUnchanged ==
    UNCHANGED <<now, today, user, userProfile, weddingData, globalNotifications,
                notificationCampaigns, docs, userStates, loadingStates, consoleErrors,
                subscription, inflight, settled, pagesVars>>

\* A canvas without area encodes to the string "data:,".
EncodedLengthsOf(c) ==
    IF c.width = 0 \/ c.height = 0 THEN {Len("data:,")} ELSE EncodedLengths

\* onChange of the file input.  The input is disabled while isLoading and the
\* button that opens the file dialog is rendered only without a preview.
handleFileSelect(file) ==
    /\ stage = "idle"
    /\ ~isLoading
    /\ ~Has(previewUrl)
    /\ Len(completions) < MaxCompletions
    /\ fileInput' = <<file>>
    /\ IF TooLargeFile(file)
       THEN /\ toast' = "error"
            /\ UNCHANGED <<isLoading, stage>>
       ELSE /\ isLoading' = TRUE
            /\ stage' = "reading"
            /\ UNCHANGED toast
    /\ UNCHANGED <<previewUrl, completions, img, canvas, base64String>>
    /\ WidgetUnchanged

\* reader.onload: the file's bytes go to a new Image.
readerOnload ==
    /\ stage = "reading"
    /\ stage' = "decoding"
    /\ UNCHANGED <<toast, isLoading, previewUrl, completions, img, canvas, fileInput,
                   base64String>>
    /\ WidgetUnchanged

readerOnerror ==
    /\ stage = "reading"
    /\ toast' = "error"
    /\ isLoading' = FALSE
    /\ stage' = "idle"
    /\ UNCHANGED <<previewUrl, completions, img, canvas, fileInput, base64String>>
    /\ WidgetUnchanged

\* img.onload: size is the decoded image's, ctx is canvas.getContext('2d') being
\* non-null, sizeInBytes the length of the data URL.
imgOnload(size, ctx, sizeInBytes) ==
    /\ stage = "decoding"
    /\ img' = <<size>>
    /\ canvas' = <<Resize(size.width, size.height)>>
    /\ sizeInBytes \in EncodedLengthsOf(Resize(size.width, size.height))
    /\ stage' = "idle"
    /\ isLoading' = FALSE
    /\ IF ~ctx
       THEN /\ toast' = "error"
            /\ UNCHANGED <<previewUrl, completions, fileInput, base64String>>
       ELSE /\ base64String' = <<sizeInBytes>>
            /\ fileInput' = Undefined
            /\ IF TooLargeEncoded(sizeInBytes)
               THEN /\ toast' = "error"
                    /\ UNCHANGED <<previewUrl, completions>>
               ELSE /\ previewUrl' = <<DataUrl(sizeInBytes)>>
                    /\ completions' = Append(completions, DataUrl(sizeInBytes))
                    /\ toast' = "success"
    /\ WidgetUnchanged

imgOnerror ==
    /\ stage = "decoding"
    /\ toast' = "error"
    /\ isLoading' = FALSE
    /\ stage' = "idle"
    /\ UNCHANGED <<previewUrl, completions, img, canvas, fileInput, base64String>>
    /\ WidgetUnchanged

\* The remove button is rendered with a preview and not while loading.
handleRemoveImage ==
    /\ Has(previewUrl)
    /\ ~isLoading
    /\ Len(completions) < MaxCompletions
    /\ previewUrl' = Undefined
    /\ completions' = Append(completions, EmptyString)
    /\ fileInput' = Undefined
    /\ UNCHANGED <<toast, isLoading, stage, img, canvas, base64String>>
    /\ WidgetUnchanged

\* The search dialog is rendered without a preview and not while loading.
handleImageFromSearch(url) ==
    /\ ~Has(previewUrl)
    /\ ~isLoading
    /\ Len(completions) < MaxCompletions
    /\ previewUrl' = <<url>>
    /\ completions' = Append(completions, url)
    /\ UNCHANGED <<toast, isLoading, stage, img, canvas, fileInput, base64String>>
    /\ WidgetUnchanged

\* The component as mounted, with or without an initial image; no widget user.
InitUpload ==
    /\ now = 1
    /\ today = 1
    /\ user = Undefined
    /\ userProfile = Undefined
    /\ weddingData = Undefined
    /\ globalNotifications = <<>>
    /\ notificationCampaigns = <<>>
    /\ docs = NoStates
    /\ userStates = NoStates
    /\ loadingStates = FALSE
    /\ consoleErrors = FALSE
    /\ subscription = "live"
    /\ inflight = {}
    /\ settled = {}
    /\ toast = "none"
    /\ isLoading = FALSE
    /\ previewUrl \in {Undefined} \cup {<<u>> : u \in RemoteUrls}
    /\ completions = <<>>
    /\ stage = "idle"
    /\ img = Undefined
    /\ canvas = Undefined
    /\ fileInput = Undefined
    /\ base64String = Undefined
    /\ PagesIdle

NextUpload ==
    \/ \E file \in Files : handleFileSelect(file)
    \/ readerOnload
    \/ readerOnerror
    \/ \E size \in ImageSizes, ctx \in BOOLEAN, n \in EncodedLengths \cup {Len("data:,")} :
           imgOnload(size, ctx, n)
    \/ imgOnerror
    \/ handleRemoveImage
    \/ \E url \in RemoteUrls : handleImageFromSearch(url)

SpecUpload == InitUpload /\ [][NextUpload]_vars

\* ------------------------------------------------- image search (Unsplash)
MaxQueryLen == 2
MaxPages == 3

\* A string is the sequence of its UTF-16 code units: an ordinary character,
\* or the high or the low half of a surrogate pair.
CodeUnits == {"char", "high", "low"}

Queries == UNION {[1..n -> CodeUnits] : n \in 0..MaxQueryLen}

\* No surrogate half stands alone.
WellFormed(str) ==
    \A i \in 1..Len(str) :
        /\ str[i] = "high" => (i < Len(str) /\ str[i + 1] = "low")
        /\ str[i] = "low" => (i > 1 /\ str[i - 1] = "high")

\* encodeURIComponent on a well-formed string: a surrogate pair becomes one
\* escape sequence.  On any other string it throws URIError.
RECURSIVE encodeURIComponent(_)
encodeURIComponent(str) ==
    IF str = <<>> THEN <<>>
    ELSE IF str[1] = "char" THEN <<"char">> \o encodeURIComponent(Tail(str))
    ELSE <<"escape">> \o encodeURIComponent(Tail(Tail(str)))

\* getDoc(configs/api_keys): rejects, no document, a document without
\* unsplashAccessKey, a document with it.
KeysDocs == {"throws", "missing", "noKey", "key"}

\* fetch(endpoint): rejects (Undefined), or a response that is ok or not and
\* whose json() resolves or rejects.
Responses == {Undefined} \cup {<<[ok |-> o, json |-> j]>> : o \in BOOLEAN, j \in BOOLEAN}

\* The request the action sends: query, per_page and lang, and no page.
endpoint(query) == [query |-> encodeURIComponent(query), per_page |-> 20, lang |-> "pt"]

\* The API's answer to a request: the images of the page it names, page 1
\* when it names none.  A page is one image here, known by query and page.
UnsplashResults(request) ==
    <<[query |-> request.query,
       page |-> IF "page" \in DOMAIN request THEN request.page ELSE 1]>>

Failure(error) == [kind |-> "return", success |-> FALSE, images |-> <<>>, error |-> error]

Success(images) == [kind |-> "return", success |-> TRUE, images |-> images, error |-> ""]

Thrown == [kind |-> "throw", success |-> FALSE, images |-> <<>>, error |-> "URIError"]

\* The server action.  Callers pass a page as a second argument; the function
\* declares one parameter and the page is dropped.
searchUnsplashImages(query, keysDoc, response) ==
    IF query = <<>> THEN Failure("A busca nao pode ser vazia.")
    ELSE IF keysDoc = "throws" THEN Failure("Nao foi possivel buscar a chave da API.")
    ELSE IF keysDoc # "key" THEN Failure("A chave da API do Unsplash nao esta configurada.")
    ELSE IF ~WellFormed(query) THEN Thrown
    ELSE IF ~Has(response) THEN Failure("Nao foi possivel conectar a API do Unsplash.")
    ELSE IF ~Val(response).ok
         THEN IF Val(response).json
              THEN Failure("Erro na API do Unsplash")
              ELSE Failure("Nao foi possivel conectar a API do Unsplash.")
    ELSE IF ~Val(response).json
         THEN Failure("Nao foi possivel conectar a API do Unsplash.")
    ELSE Success(UnsplashResults(endpoint(query)))

notificationVars ==
    <<now, today, user, userProfile, weddingData, globalNotifications,
      notificationCampaigns, docs, userStates, loadingStates, consoleErrors,
      subscription, inflight, settled>>

\* No user is signed in to the notification widget and nothing was shown.
NoWidget ==
    /\ now = 1
    /\ today = 1
    /\ user = Undefined
    /\ userProfile = Undefined
    /\ weddingData = Undefined
    /\ globalNotifications = <<>>
    /\ notificationCampaigns = <<>>
    /\ docs = NoStates
    /\ userStates = NoStates
    /\ loadingStates = FALSE
    /\ consoleErrors = FALSE
    /\ subscription = "live"
    /\ inflight = {}
    /\ settled = {}
    /\ toast = "none"

OutsideSearch == UNCHANGED <<notificationVars, uploaderVars, listVars, giftVars>>

\* onChange of the query input, disabled while isSearching.
setSearchQuery(value) ==
    /\ ~isSearching
    /\ value # searchQuery
    /\ searchQuery' = value
    /\ UNCHANGED <<searchResults, isSearching, currentPage, call, result, moreLoaded, toast>>
    /\ OutsideSearch

\* handleSearch up to the await.  The submit button and "Carregar mais" are
\* disabled while isSearching; "Carregar mais" is rendered with results only.
handleSearch(newSearch) ==
    /\ ~isSearching
    /\ newSearch \/ (Len(searchResults) > 0 /\ currentPage < MaxPages)
    /\ searchQuery # <<>>
    /\ isSearching' = TRUE
    /\ call' = <<[query |-> searchQuery,
                  pageToFetch |-> IF newSearch THEN 1 ELSE currentPage + 1,
                  newSearch |-> newSearch]>>
    /\ IF newSearch
       THEN /\ searchResults' = <<>>
            /\ currentPage' = 1
            /\ moreLoaded' = 0
       ELSE UNCHANGED <<searchResults, currentPage, moreLoaded>>
    /\ UNCHANGED <<searchQuery, result, toast>>
    /\ OutsideSearch

\* The awaited call ends and handleSearch goes on.  The call is a request to
\* the application server ('use server'): it rejects when the request is not
\* delivered or when the action throws, and then the rest of handleSearch
\* does not run.
handleSearchAwaited(keysDoc, response, delivered) ==
    /\ Has(call)
    /\ LET c == Val(call)
           r == searchUnsplashImages(c.query, keysDoc, response)
       IN  /\ result' = IF delivered
                        THEN <<[query |-> c.query, keysDoc |-> keysDoc,
                                response |-> response, outcome |-> r]>>
                        ELSE result
           /\ call' = Undefined
           /\ IF ~delivered \/ r.kind = "throw"
              THEN UNCHANGED <<searchResults, isSearching, currentPage, moreLoaded, toast>>
              ELSE /\ isSearching' = FALSE
                   /\ IF r.success
                      THEN /\ searchResults' =
                                IF c.newSearch THEN r.images ELSE searchResults \o r.images
                           /\ currentPage' = IF c.newSearch THEN currentPage ELSE c.pageToFetch
                           /\ moreLoaded' = IF c.newSearch THEN moreLoaded ELSE moreLoaded + 1
                           /\ UNCHANGED toast
                      ELSE /\ toast' = "error"
                           /\ UNCHANGED <<searchResults, currentPage, moreLoaded>>
    /\ UNCHANGED searchQuery
    /\ OutsideSearch

InitSearch ==
    /\ NoWidget
    /\ UploaderIdle
    /\ PagesIdle

NextSearch ==
    \/ \E value \in Queries : setSearchQuery(value)
    \/ \E newSearch \in BOOLEAN : handleSearch(newSearch)
    \/ \E keysDoc \in KeysDocs, response \in Responses, delivered \in BOOLEAN :
           handleSearchAwaited(keysDoc, response, delivered)

SpecSearch == InitSearch /\ [][NextSearch]_vars

\* ------------------------- HomeTrousseauClient and InspirationsClient
MaxComments == 2

Pages == {"homeTrousseau", "inspirations"}

CategoryIds == {"cat1", "cat2"}

ItemIds == {"i1", "i2"}

\* The profile of a signed-in user: id is the user's UID.
PageProfiles == [id : {"u1"}, role : AppRole \cup {"undefined"}]

\* Mutant: the role is not looked at.
MayComment_Anyone(role) == TRUE

\* Negation of the role check of handleCommentSubmit.
MayComment(role) == ~(role # "bride" /\ role # "groom" /\ role # "super_admin")

\* Items stored under a category: where('categoryId', '==', categoryId).
ItemsOf(categoryId) == {i \in DOMAIN items : items[i] = categoryId}

\* The store without the documents of a set of ids.
Without(store, ids) == [i \in DOMAIN store \ ids |-> store[i]]

OutsideList == UNCHANGED <<notificationVars, uploaderVars, searchVars, giftVars>>

\* onClick of an inspiration card, and closing the dialog.
setViewingInspiration(value) ==
    /\ page = "inspirations"
    /\ value # viewingInspiration
    /\ Has(value) => Val(value) \in DOMAIN items
    /\ viewingInspiration' = value
    /\ UNCHANGED <<page, categories, items, usedIds, deletedCategories, pageProfile,
                   comments, deleteBatch, unhandledRejection, toast>>
    /\ OutsideList

\* The comment form is rendered in the dialog of viewingInspiration.  ok is
\* whether addDoc resolves.
handleCommentSubmit(ok) ==
    /\ page = "inspirations"
    /\ Has(viewingInspiration)
    /\ Len(comments) < MaxComments
    /\ IF ~Has(pageProfile)
       THEN UNCHANGED <<comments, toast>>
       ELSE IF ~MayComment(Val(pageProfile).role)
       THEN /\ toast' = "denied"
            /\ UNCHANGED comments
       ELSE IF ok
       THEN /\ comments' = Append(comments,
                                  [inspiration |-> Val(viewingInspiration),
                                   authorUid |-> Val(pageProfile).id,
                                   authorRole |-> Val(pageProfile).role])
            /\ UNCHANGED toast
       ELSE /\ toast' = "error"
            /\ UNCHANGED comments
    /\ UNCHANGED <<page, categories, items, usedIds, deletedCategories, pageProfile,
                   viewingInspiration, deleteBatch, unhandledRejection>>
    /\ OutsideList

\* handleCategorySubmit: editingCategory is the category being renamed, if
\* any; ok is whether updateDoc / addDoc resolves.  Names are not stored here.
handleCategorySubmit(editingCategory, ok) ==
    /\ Has(editingCategory) => Val(editingCategory) \in categories
    /\ IF ~ok
       THEN /\ toast' = "error"
            /\ UNCHANGED <<categories, usedIds>>
       ELSE /\ toast' = "success"
            /\ IF Has(editingCategory)
               THEN UNCHANGED <<categories, usedIds>>
               ELSE \E id \in CategoryIds \ usedIds :
                        /\ categories' = categories \cup {id}
                        /\ usedIds' = usedIds \cup {id}
    /\ UNCHANGED <<page, items, deletedCategories, pageProfile, viewingInspiration,
                   comments, deleteBatch, unhandledRejection>>
    /\ OutsideList

\* handleItemSubmit / handleInspirationSubmit, from any client of the wedding:
\* the form's categoryId is one of the categories stored.
handleItemSubmit(editingItem, categoryId, ok) ==
    /\ categoryId \in categories
    /\ Has(editingItem) => Val(editingItem) \in DOMAIN items
    /\ IF ~ok
       THEN /\ toast' = "error"
            /\ UNCHANGED <<items, usedIds>>
       ELSE /\ toast' = "success"
            /\ IF Has(editingItem)
               THEN /\ items' = [items EXCEPT ![Val(editingItem)] = categoryId]
                    /\ UNCHANGED usedIds
               ELSE \E id \in ItemIds \ usedIds :
                        /\ items' = (id :> categoryId) @@ items
                        /\ usedIds' = usedIds \cup {id}
    /\ UNCHANGED <<page, categories, deletedCategories, pageProfile, viewingInspiration,
                   comments, deleteBatch, unhandledRejection>>
    /\ OutsideList

\* handleDeleteItem / handleDeleteInspiration: await deleteDoc with no try.
handleDeleteItem(itemId, ok) ==
    /\ itemId \in DOMAIN items
    /\ IF ok
       THEN /\ items' = Without(items, {itemId})
            /\ toast' = "success"
            /\ UNCHANGED unhandledRejection
       ELSE /\ unhandledRejection' = TRUE
            /\ UNCHANGED <<items, toast>>
    /\ UNCHANGED <<page, categories, usedIds, deletedCategories, pageProfile,
                   viewingInspiration, comments, deleteBatch>>
    /\ OutsideList

\* handleDeleteCategory up to the end of `await getDocs(...)`: the batch holds
\* the category and the items the query returned.
handleDeleteCategoryQuery(categoryId, ok) ==
    /\ ~Has(deleteBatch)
    /\ categoryId \in categories
    /\ IF ok
       THEN /\ deleteBatch' = <<[categoryId |-> categoryId, refs |-> ItemsOf(categoryId)]>>
            /\ UNCHANGED unhandledRejection
       ELSE /\ unhandledRejection' = TRUE
            /\ UNCHANGED deleteBatch
    /\ UNCHANGED <<page, categories, items, usedIds, deletedCategories, pageProfile,
                   viewingInspiration, comments, toast>>
    /\ OutsideList

\* `await batch.commit()` and the rest of handleDeleteCategory.
handleDeleteCategoryCommit(ok) ==
    /\ Has(deleteBatch)
    /\ deleteBatch' = Undefined
    /\ IF ok
       THEN /\ categories' = categories \ {Val(deleteBatch).categoryId}
            /\ items' = Without(items, Val(deleteBatch).refs)
            /\ deletedCategories' = deletedCategories \cup {Val(deleteBatch).categoryId}
            /\ toast' = "success"
            /\ UNCHANGED unhandledRejection
       ELSE /\ unhandledRejection' = TRUE
            /\ UNCHANGED <<categories, items, deletedCategories, toast>>
    /\ UNCHANGED <<page, usedIds, pageProfile, viewingInspiration, comments>>
    /\ OutsideList

\* A list page of a wedding that has one category with one item in it.
InitList ==
    /\ NoWidget
    /\ UploaderIdle
    /\ SearchIdle
    /\ GiftsIdle
    /\ page \in Pages
    /\ categories = {"cat1"}
    /\ items = ("i1" :> "cat1")
    /\ usedIds = {"cat1", "i1"}
    /\ deletedCategories = {}
    /\ pageProfile \in {Undefined} \cup {<<u>> : u \in PageProfiles}
    /\ viewingInspiration = Undefined
    /\ comments = <<>>
    /\ deleteBatch = Undefined
    /\ unhandledRejection = FALSE

NextList ==
    \/ \E value \in {Undefined} \cup {<<i>> : i \in ItemIds} : setViewingInspiration(value)
    \/ \E ok \in BOOLEAN : handleCommentSubmit(ok)
    \/ \E editingCategory \in {Undefined} \cup {<<c>> : c \in CategoryIds}, ok \in BOOLEAN :
           handleCategorySubmit(editingCategory, ok)
    \/ \E editingItem \in {Undefined} \cup {<<i>> : i \in ItemIds}, categoryId \in CategoryIds,
          ok \in BOOLEAN :
           handleItemSubmit(editingItem, categoryId, ok)
    \/ \E itemId \in ItemIds, ok \in BOOLEAN : handleDeleteItem(itemId, ok)
    \/ \E categoryId \in CategoryIds, ok \in BOOLEAN : handleDeleteCategoryQuery(categoryId, ok)
    \/ \E ok \in BOOLEAN : handleDeleteCategoryCommit(ok)

SpecList == InitList /\ [][NextList]_vars

\* ------------------------------------------------------------ GiftsClient
MaxAttempts == 2

OutsideGifts == UNCHANGED <<notificationVars, uploaderVars, searchVars, listVars>>

\* A document written by the n-th submit of a client has an id of its own.
DocId(u) == [by |-> u, n |-> attempt[u].n]

\* The context's listeners hand a client the stored suggestions and categories.
onSnapshotGifts(u) ==
    /\ suggestions[u] # giftSuggestions \/ homeTrousseauCategories[u] # giftCategories
    /\ suggestions' = [suggestions EXCEPT ![u] = giftSuggestions]
    /\ homeTrousseauCategories' = [homeTrousseauCategories EXCEPT ![u] = giftCategories]
    /\ UNCHANGED <<giftSuggestions, receivedGifts, homeTrousseauItems, giftCategories,
                   suggestionToReceive, submitting, giftCategoryId, attempt, toast>>
    /\ OutsideGifts

\* The "Presentear" button, rendered for a suggestion the client sees unclaimed.
clickPresentear(u, suggestion) ==
    /\ submitting[u] = "no"
    /\ ~Has(suggestionToReceive[u])
    /\ ~suggestions[u][suggestion]
    /\ suggestionToReceive' = [suggestionToReceive EXCEPT ![u] = <<suggestion>>]
    /\ UNCHANGED <<giftSuggestions, receivedGifts, homeTrousseauItems, giftCategories,
                   suggestions, homeTrousseauCategories, submitting, giftCategoryId,
                   attempt, toast>>
    /\ OutsideGifts

\* The dialog is closed without a submit: the effect clears suggestionToReceive.
closeReceivedGiftDialog(u) ==
    /\ submitting[u] = "no"
    /\ Has(suggestionToReceive[u])
    /\ suggestionToReceive' = [suggestionToReceive EXCEPT ![u] = Undefined]
    /\ UNCHANGED <<giftSuggestions, receivedGifts, homeTrousseauItems, giftCategories,
                   suggestions, homeTrousseauCategories, submitting, giftCategoryId,
                   attempt, toast>>
    /\ OutsideGifts

\* handleReceivedGiftSubmit with suggestionToReceive, up to the first await:
\* getOrCreateGiftCategory returns a category of the client's snapshot, or
\* awaits getDocs.
handleReceivedGiftSubmit(u) ==
    /\ submitting[u] = "no"
    /\ Has(suggestionToReceive[u])
    /\ attempt[u].n < MaxAttempts
    /\ attempt' = [attempt EXCEPT ![u] = [n |-> @.n + 1, created |-> Undefined, ended |-> "no"]]
    /\ IF homeTrousseauCategories[u] # {}
       THEN /\ \E c \in homeTrousseauCategories[u] :
                   giftCategoryId' = [giftCategoryId EXCEPT ![u] = <<c>>]
            /\ submitting' = [submitting EXCEPT ![u] = "commit"]
       ELSE /\ giftCategoryId' = [giftCategoryId EXCEPT ![u] = Undefined]
            /\ submitting' = [submitting EXCEPT ![u] = "getDocs"]
    /\ UNCHANGED <<giftSuggestions, receivedGifts, homeTrousseauItems, giftCategories,
                   suggestions, homeTrousseauCategories, suggestionToReceive, toast>>
    /\ OutsideGifts

\* The catch block of handleReceivedGiftSubmit: the dialog stays open.
SubmitFails(u) ==
    /\ toast' = "error"
    /\ submitting' = [submitting EXCEPT ![u] = "no"]
    /\ attempt' = [attempt EXCEPT ![u].ended = "failed"]

\* `await getDocs(q)` of getOrCreateGiftCategory settles.
getDocsSettles(u, ok) ==
    /\ submitting[u] = "getDocs"
    /\ IF ~ok
       THEN /\ SubmitFails(u)
            /\ UNCHANGED giftCategoryId
       ELSE /\ UNCHANGED <<toast, attempt>>
            /\ IF giftCategories # {}
               THEN /\ \E c \in giftCategories :
                           giftCategoryId' = [giftCategoryId EXCEPT ![u] = <<c>>]
                    /\ submitting' = [submitting EXCEPT ![u] = "commit"]
               ELSE /\ UNCHANGED giftCategoryId
                    /\ submitting' = [submitting EXCEPT ![u] = "addDoc"]
    /\ UNCHANGED <<giftSuggestions, receivedGifts, homeTrousseauItems, giftCategories,
                   suggestions, homeTrousseauCategories, suggestionToReceive>>
    /\ OutsideGifts

\* `await addDoc(categoriesRef, ...)` of getOrCreateGiftCategory settles.
addDocSettles(u, ok) ==
    /\ submitting[u] = "addDoc"
    /\ IF ~ok
       THEN /\ SubmitFails(u)
            /\ UNCHANGED <<giftCategories, giftCategoryId>>
       ELSE /\ giftCategories' = giftCategories \cup {DocId(u)}
            /\ giftCategoryId' = [giftCategoryId EXCEPT ![u] = <<DocId(u)>>]
            /\ attempt' = [attempt EXCEPT ![u].created = <<DocId(u)>>]
            /\ submitting' = [submitting EXCEPT ![u] = "commit"]
            /\ UNCHANGED toast
    /\ UNCHANGED <<giftSuggestions, receivedGifts, homeTrousseauItems, suggestions,
                   homeTrousseauCategories, suggestionToReceive>>
    /\ OutsideGifts

\* `await batch.commit()` settles: the three writes happen together or not at
\* all; on success the dialog closes.
commitSettles(u, ok) ==
    /\ submitting[u] = "commit"
    /\ IF ~ok
       THEN /\ SubmitFails(u)
            /\ UNCHANGED <<giftSuggestions, receivedGifts, homeTrousseauItems,
                           suggestionToReceive>>
       ELSE LET suggestion == Val(suggestionToReceive[u])
            IN  /\ receivedGifts' =
                       receivedGifts \cup {[id |-> DocId(u), suggestion |-> suggestion]}
                /\ giftSuggestions' = [giftSuggestions EXCEPT ![suggestion] = TRUE]
                /\ homeTrousseauItems' =
                       homeTrousseauItems \cup
                           {[id |-> DocId(u), suggestion |-> suggestion,
                             categoryId |-> Val(giftCategoryId[u])]}
                /\ toast' = "success"
                /\ submitting' = [submitting EXCEPT ![u] = "no"]
                /\ suggestionToReceive' = [suggestionToReceive EXCEPT ![u] = Undefined]
                /\ attempt' = [attempt EXCEPT ![u].ended = "done"]
    /\ UNCHANGED <<giftCategories, suggestions, homeTrousseauCategories, giftCategoryId>>
    /\ OutsideGifts

InitGifts ==
    /\ NoWidget
    /\ UploaderIdle
    /\ SearchIdle
    /\ ListIdle
    /\ GiftsIdle

NextGifts ==
    \/ \E u \in Clients : onSnapshotGifts(u)
    \/ \E u \in Clients, suggestion \in SuggestionIds : clickPresentear(u, suggestion)
    \/ \E u \in Clients : closeReceivedGiftDialog(u)
    \/ \E u \in Clients : handleReceivedGiftSubmit(u)
    \/ \E u \in Clients, ok \in BOOLEAN : getDocsSettles(u, ok)
    \/ \E u \in Clients, ok \in BOOLEAN : addDocSettles(u, ok)
    \/ \E u \in Clients, ok \in BOOLEAN : commitSettles(u, ok)

SpecGifts == InitGifts /\ [][NextGifts]_vars

\* ------------------------------------------------- resolver on all inputs
InitResolve ==
    /\ now = 1
    /\ today = 1
    /\ user = <<"u1">>
    /\ userProfile \in {Undefined} \cup {<<p>> : p \in AppUser}
    /\ weddingData \in {Undefined} \cup {<<w>> : w \in WeddingData}
    /\ globalNotifications \in NotificationArrays
    /\ notificationCampaigns \in CampaignArrays
    /\ docs \in UserNotificationStates
    /\ userStates = docs
    /\ loadingStates = FALSE
    /\ consoleErrors = FALSE
    /\ subscription = "live"
    /\ inflight = {}
    /\ settled = {<<id, f>> \in SourceIds \X StateField : Flag(docs, id, f)}
    /\ toast = "none"
    /\ UploaderIdle
    /\ PagesIdle

\* Time passes and the feed is evaluated again at the new instant.
Evaluate ==
    /\ now < MaxTime
    /\ now' = now + 1
    /\ today' = now'
    /\ UNCHANGED <<user, userProfile, weddingData, globalNotifications,
                   notificationCampaigns, docs, userStates, loadingStates, consoleErrors>>
    /\ UNCHANGED <<subscription, inflight, settled, toast>>
    /\ UNCHANGED <<uploaderVars, pagesVars>>

NextResolve == Evaluate

SpecResolve == InitResolve /\ [][NextResolve]_vars

\* ================================================================ claims
Broadcasts == {globalNotifications[i] : i \in 1..Len(globalNotifications)}

Campaigns == {notificationCampaigns[i] : i \in 1..Len(notificationCampaigns)}

FeedItems == {mergedNotifications[i] : i \in 1..Len(mergedNotifications)}

CoupleRoles == {"bride", "groom", "super_admin"}

\* C1: a source id whose state for the user has deleted = true is never in the
\* feed, whatever its target, trigger, offset, isActive and read flag are.
C1_DeletedNeverInFeed ==
    \A id \in SourceIds : Flag(userStates, id, "deleted") => id \notin FeedIds

\* A read and deleted "all" broadcast and a deleted, active, due campaign:
\* both would be in the feed but for the deleted flag, and the feed is empty.
C1_Witness ==
    /\ \E n \in Broadcasts :
          n.target = "all" /\ Flag(userStates, n.id, "deleted") /\ Flag(userStates, n.id, "read")
    /\ \E c \in Campaigns :
          /\ c.isActive /\ Flag(userStates, c.id, "deleted")
          /\ Has(ProfileCreatedAt) /\ Has(triggerDate(c)) /\ Val(triggerDate(c)) < today
    /\ mergedNotifications = <<>>

\* C3: a "couples" broadcast is in the feed only for bride, groom and
\* super_admin (and is in it for them unless deleted); an "all" broadcast
\* that is not deleted is in the feed for every role and for no role.
C3_CouplesTarget ==
    \A n \in Broadcasts :
        /\ (n.target = "couples" /\ n.id \in FeedIds) => UserRole \in CoupleRoles
        /\ (n.target = "couples" /\ UserRole \in CoupleRoles
              /\ ~Flag(userStates, n.id, "deleted")) => n.id \in FeedIds
        /\ (n.target = "all" /\ ~Flag(userStates, n.id, "deleted")) => n.id \in FeedIds

\* A guest with a "couples" broadcast that is not deleted: it is filtered out.
C3_Witness ==
    \E n \in Broadcasts :
        /\ n.target = "couples" /\ UserRole = "guest"
        /\ ~Flag(userStates, n.id, "deleted") /\ n.id \notin FeedIds

\* C4 as stated: the feed is strictly descending by createdAt.
C4_StrictlyDescending ==
    \A i \in 1..(Len(mergedNotifications) - 1) :
        mergedNotifications[i].createdAt > mergedNotifications[i + 1].createdAt

\* C4 amended: the feed is descending by createdAt, items of equal createdAt
\* being adjacent; a campaign item's key is the rule's createdAt.
C4_SortedDescending ==
    /\ \A i \in 1..(Len(mergedNotifications) - 1) :
          mergedNotifications[i].createdAt >= mergedNotifications[i + 1].createdAt
    /\ \A m \in FeedItems : m.isCampaign =>
          \E c \in Campaigns : c.id = m.id /\ m.createdAt = c.createdAt

\* A campaign newer than the broadcast: the concatenation is out of order and
\* the sort moves the campaign first.
C4_Witness ==
    /\ Len(mergedNotifications) = 2
    /\ mergedNotifications # manualNotifications \o campaignNotifications
    /\ mergedNotifications[1].isCampaign

DateOf(instant) == instant \div DayLen

\* C5 as stated: a relativeToSignup campaign is in the feed iff the current
\* date is on or after the signup date plus offsetDays days.
C5_VisibleFromSignupDate ==
    \A c \in Campaigns :
        (/\ c.triggerType = "relativeToSignup" /\ c.isActive
         /\ ~Flag(userStates, c.id, "deleted") /\ Has(ProfileCreatedAt))
        => (c.id \in FeedIds <=>
              DateOf(today) >= DateOf(Val(ProfileCreatedAt)) + c.offsetDays)

\* C5 amended: it is in the feed iff the evaluation instant is strictly
\* later than the signup instant moved by offsetDays whole days.
C5_VisibleAfterSignupInstant ==
    \A c \in Campaigns :
        (/\ c.triggerType = "relativeToSignup" /\ c.isActive
         /\ ~Flag(userStates, c.id, "deleted") /\ Has(ProfileCreatedAt))
        => (c.id \in FeedIds <=>
              today > Val(ProfileCreatedAt) + c.offsetDays * DayLen)

\* A campaign a positive number of days after signup that has become visible.
C5_Witness ==
    \E c \in Campaigns :
        /\ c.triggerType = "relativeToSignup" /\ c.offsetDays > 0
        /\ Has(ProfileCreatedAt) /\ c.id \in FeedIds

\* C6: a campaign item is in the feed only if its rule is active and its
\* trigger date is strictly before the evaluation time.
C6_CampaignOnlyActiveAndPast ==
    \A m \in FeedItems : m.isCampaign =>
        \E c \in Campaigns :
            /\ c.id = m.id /\ c.isActive
            /\ Has(triggerDate(c)) /\ Val(triggerDate(c)) < today

\* An active campaign whose trigger date is the evaluation instant itself:
\* it is not in the feed.
C6_Witness ==
    \E c \in Campaigns :
        /\ c.isActive /\ ~Flag(userStates, c.id, "deleted") /\ Has(ProfileCreatedAt)
        /\ Has(triggerDate(c)) /\ Val(triggerDate(c)) = today
        /\ c.id \notin FeedIds

\* C7: a relativeToWeddingDate campaign is never in the feed when there is
\* no wedding date, and the broadcasts are still delivered.
C7_NoWeddingDateNoCampaign ==
    ~Has(WeddingDate) =>
        /\ \A c \in Campaigns :
              c.triggerType = "relativeToWeddingDate" => c.id \notin FeedIds
        /\ \A n \in Broadcasts :
              (n.target = "all" /\ ~Flag(userStates, n.id, "deleted")) => n.id \in FeedIds

\* An active wedding-date campaign, a profile with a signup instant long past
\* and no wedding date: the campaign is absent, the broadcast is shown.
C7_Witness ==
    /\ ~Has(WeddingDate) /\ Has(ProfileCreatedAt) /\ today = MaxTime
    /\ \E c \in Campaigns :
          /\ c.triggerType = "relativeToWeddingDate" /\ c.isActive
          /\ ~Flag(userStates, c.id, "deleted") /\ c.id \notin FeedIds
    /\ \E n \in Broadcasts : n.id \in FeedIds

\* C8: an active, not deleted relativeToWeddingDate campaign whose wedding
\* date plus offset is strictly past is in the feed, with or without an
\* account-creation timestamp on the profile.
C8_WeddingCampaignIndependentOfSignup ==
    \A c \in Campaigns :
        (/\ c.triggerType = "relativeToWeddingDate" /\ c.isActive
         /\ ~Flag(userStates, c.id, "deleted")
         /\ Has(userProfile) /\ Has(WeddingDate)
         /\ Val(WeddingDate) + c.offsetDays * DayLen < today)
        => c.id \in FeedIds

\* C9: the unread count is the number of feed items whose state has no
\* read = true; sources that are deleted or filtered out are not counted.
C9_UnreadCount ==
    /\ unreadCount =
          Cardinality({i \in 1..Len(mergedNotifications) :
                          ~Flag(userStates, mergedNotifications[i].id, "read")})
    /\ unreadCount <=
          Cardinality({id \in SourceIds : ~Flag(userStates, id, "deleted")
                                            /\ ~Flag(userStates, id, "read")})

\* A feed of a read broadcast and an unread campaign, with a count of 1.
C9_Witness ==
    /\ Len(mergedNotifications) = 2
    /\ \E m \in FeedItems : m.isRead /\ ~m.isCampaign
    /\ \E m \in FeedItems : ~m.isRead /\ m.isCampaign
    /\ unreadCount = 1

\* C2: delete is one-way: no step clears deleted in the store, and once the
\* widget has seen deleted for an id that id is never in the feed again.
C2_DeleteIrreversible ==
    [][\A id \in SourceIds :
          /\ Flag(docs, id, "deleted") => Flag(docs', id, "deleted")
          /\ Flag(userStates, id, "deleted") =>
                (Flag(userStates', id, "deleted") /\ id \notin FeedIds')]_vars

\* An id deleted and marked read, the deletion seen by the widget.
C2_Witness ==
    \E id \in SourceIds :
        /\ Flag(docs, id, "deleted") /\ Flag(docs, id, "read")
        /\ Flag(userStates, id, "deleted") /\ id \notin FeedIds

\* C10: markRead is idempotent: a call on an id that is already read leaves
\* the stored state as it is, and after a call that made the id read the
\* same write changes nothing.
C10_MarkReadIdempotent ==
    [][\A id \in SourceIds : handleMarkAsRead(id) =>
          /\ Flag(docs, id, "read") => docs' = docs
          /\ Flag(docs', id, "read") => SetDocMerge(docs', id, "read") = docs']_vars

\* An id read in the store and still shown unread: the second call writes again.
C10_Witness ==
    \E id \in SourceIds :
        /\ Flag(docs, id, "read") /\ ~Flag(userStates, id, "read") /\ Displayed(id)

\* The record of every source id other than id is the same before and after.
OthersUntouched(id) ==
    \A j \in SourceIds \ {id} :
        /\ j \in DOMAIN docs' <=> j \in DOMAIN docs
        /\ \A f \in StateField : Flag(docs', j, f) <=> Flag(docs, j, f)

\* C11: markRead changes only states[id].read and delete only
\* states[id].deleted; neither clears the other flag nor touches another id.
C11_HandlersChangeOnlyTheirField ==
    [][\A id \in SourceIds :
          /\ handleMarkAsRead(id) =>
                /\ OthersUntouched(id)
                /\ Flag(docs', id, "deleted") <=> Flag(docs, id, "deleted")
                /\ Flag(docs, id, "read") => Flag(docs', id, "read")
          /\ handleDelete(id) =>
                /\ OthersUntouched(id)
                /\ Flag(docs', id, "read") <=> Flag(docs, id, "read")
                /\ Flag(docs, id, "deleted") => Flag(docs', id, "deleted")]_vars

\* One id read and then deleted, while another id has a record of its own.
C11_Witness ==
    \E id \in SourceIds : \E j \in SourceIds \ {id} :
        /\ Flag(docs, id, "read") /\ Flag(docs, id, "deleted")
        /\ j \in DOMAIN docs

\* C12: when the write of markRead or delete has failed, an error has been
\* shown to the user.
C12_FailedWriteSurfaced == consoleErrors => toast = "error"

\* C13: when the state listener failed to load, the widget has left its
\* loading state by the time the clock has run out.
C13_FailedLoadStillPresentsFeed ==
    (subscription = "failed" /\ now = MaxTime) => ~loading

ActedIds == {w[1] : w \in settled}

\* C15: a state record exists only for an id the user marked read or
\* deleted, and no step removes a record.
C15_RecordsOnlyForActedIds ==
    /\ [](DOMAIN docs \subseteq ActedIds)
    /\ [][DOMAIN docs \subseteq DOMAIN docs']_vars

\* One id has a record; another id is displayed and has none.
C15_Witness ==
    /\ \E id \in SourceIds : id \in DOMAIN docs /\ id \in ActedIds
    /\ \E j \in FeedIds : j \notin DOMAIN docs /\ Displayed(j)

\* C16: a campaign in the feed at one evaluation is in the feed at the next,
\* unless the user has deleted it: there is no expiry.
C16_CampaignStaysVisible ==
    [][\A c \in Campaigns :
          (c.id \in FeedIds /\ ~Flag(userStates', c.id, "deleted")) => c.id \in FeedIds']_vars

\* A campaign still in the feed two days and more after its trigger date.
C16_Witness ==
    \E c \in Campaigns :
        /\ c.id \in FeedIds /\ Has(triggerDate(c))
        /\ today - Val(triggerDate(c)) >= 2 * DayLen

\* C14: when the writes of markRead(id) and delete(id) have both resolved,
\* in either order, the stored record is the same: read and deleted; and the
\* id is not in the feed once the widget has the snapshot.
C14_ConcurrentWritesCommute ==
    \A id \in SourceIds :
        ({<<id, "read">>, <<id, "deleted">>} \subseteq settled) =>
            /\ id \in DOMAIN docs /\ docs[id] = {"read", "deleted"}
            /\ userStates = docs => id \notin FeedIds

\* Both writes on one id are in flight at once: neither has settled.
C14_Witness ==
    \E id \in SourceIds :
        /\ {<<id, "read">>, <<id, "deleted">>} \subseteq inflight
        /\ id \notin DOMAIN docs

\* C17: a file larger than 5 MiB is rejected before any processing: the step
\* of handleFileSelect on it starts no read (and so no resize or encode),
\* does not enter the loading state, leaves the preview as it was and does not
\* invoke the completion callback; the user gets an error toast.
C17_OversizedFileRejected ==
    [][\A file \in Files :
          (handleFileSelect(file) /\ file.size > 5 * MiB) =>
              /\ stage' = "idle"
              /\ ~isLoading'
              /\ UNCHANGED <<previewUrl, completions, img, canvas, base64String>>
              /\ toast' = "error"]_vars

\* The input holds a 6 MiB file that was turned away.
C17_Witness ==
    /\ Has(fileInput)
    /\ Val(fileInput).size = 6 * MiB
    /\ toast = "error"
    /\ stage = "idle"
    /\ ~isLoading
    /\ completions = <<>>

\* C18: for every input image size the canvas has width <= 1920 and
\* height <= 1080.
C18_OutputWithinBounds ==
    Has(canvas) => Val(canvas).width <= 1920 /\ Val(canvas).height <= 1080

WithinBounds(size) == size.width <= 1920 /\ size.height <= 1080

\* C19 as claimed: the output is no larger than the input in either
\* dimension, has exactly the input's aspect ratio (w'/h' = w/h), equals the
\* input when the input is within bounds, and 2000x1000 becomes 1920x960.
C19_ShrinksKeepingExactRatio ==
    (Has(img) /\ Has(canvas)) =>
        LET i == Val(img)
            c == Val(canvas)
        IN  /\ c.width <= i.width
            /\ c.height <= i.height
            /\ c.width * i.height = i.width * c.height
            /\ WithinBounds(i) => c = i
            /\ (i.width = 2000 /\ i.height = 1000) => (c.width = 1920 /\ c.height = 960)

\* C19, amended: the output is no larger than the input in either dimension,
\* equals the input when the input is within bounds, 2000x1000 becomes
\* 1920x960, and a scaled output keeps the aspect ratio up to one pixel: one
\* dimension is its bound and the other is a whole number of pixels, never
\* above and at most one pixel under the exactly proportional value.
C19_ShrinksKeepingRatioToThePixel ==
    (Has(img) /\ Has(canvas)) =>
        LET i == Val(img)
            c == Val(canvas)
        IN  /\ c.width <= i.width
            /\ c.height <= i.height
            /\ WithinBounds(i) => c = i
            /\ (i.width = 2000 /\ i.height = 1000) => (c.width = 1920 /\ c.height = 960)
            /\ \/ c = i
               \/ /\ c.width = 1920
                  /\ c.height * i.width <= i.height * c.width
                  /\ i.height * c.width <= (c.height + 1) * i.width
               \/ /\ c.height = 1080
                  /\ c.width * i.height <= i.width * c.height
                  /\ i.width * c.height <= (c.width + 1) * i.height

\* A 2000x999 image is on the canvas as 1920x959: 959.04 lost its fraction.
C19_Witness ==
    /\ Has(img) /\ Val(img).width = 2000 /\ Val(img).height = 999
    /\ Has(canvas) /\ Val(canvas).width = 1920 /\ Val(canvas).height = 959

\* C20: an encoded payload longer than 1 MiB ends the ingestion in a failure
\* shown to the user: the completion callback never gets such a payload, and
\* the step that finds it leaves the preview and the callback alone, clears
\* loading, shows an error toast and leaves the component idle (no new read).
C20_OversizedPayloadRejected ==
    /\ [](\A k \in 1..Len(completions) :
             completions[k].kind = "dataUrl" => completions[k].length <= MiB)
    /\ [][\A size \in ImageSizes, n \in EncodedLengths :
             (imgOnload(size, TRUE, n) /\ n > MiB) =>
                 /\ UNCHANGED <<previewUrl, completions>>
                 /\ ~isLoading'
                 /\ stage' = "idle"
                 /\ toast' = "error"]_vars

\* The last encoding was over 1 MiB and the component is idle with an error.
C20_Witness ==
    /\ Has(base64String)
    /\ Val(base64String) > MiB
    /\ toast = "error"
    /\ stage = "idle"
    /\ ~isLoading
    /\ ~Has(fileInput)

\* C21: searchUnsplashImages never throws; it returns success = false with an
\* error message for an empty query, a missing credential, a failing
\* credential read, a non-2xx response (parsable or not) and a network
\* error, and success = true only after a 2xx response.
C21_SearchNeverThrows ==
    Has(result) =>
        LET r == Val(result)
            failing == \/ r.query = <<>>
                       \/ r.keysDoc # "key"
                       \/ ~Has(r.response)
                       \/ (Has(r.response) /\ ~Val(r.response).ok)
        IN  /\ r.outcome.kind = "return"
            /\ failing => (~r.outcome.success /\ r.outcome.error # "")
            /\ r.outcome.success => (Has(r.response) /\ Val(r.response).ok)

\* C22: the images appended by a load-more after k pages are those of page
\* k + 1: the accumulated results are pages 1, 2, 3, ... in order.
C22_LoadMoreAppendsNextPage ==
    \A k \in 1..Len(searchResults) : searchResults[k].page = k

\* C30: with no request outstanding isSearching is false and currentPage is
\* 1 plus the successful load-more requests since the last new search; a
\* failed load-more leaves the results and currentPage unchanged.
C30_DialogSettles ==
    /\ [](~Has(call) => (~isSearching /\ currentPage = 1 + moreLoaded))
    /\ [][\A keysDoc \in KeysDocs, response \in Responses, delivered \in BOOLEAN :
             (/\ handleSearchAwaited(keysDoc, response, delivered)
              /\ ~Val(call).newSearch
              /\ \/ ~delivered
                 \/ ~searchUnsplashImages(Val(call).query, keysDoc, response).success)
             => UNCHANGED <<searchResults, currentPage>>]_vars

C24_StoreFailuresSurfaced ==
    [][/\ \A c \in {Undefined} \cup {<<x>> : x \in CategoryIds} :
              handleCategorySubmit(c, FALSE) => toast' = "error"
       /\ \A i \in {Undefined} \cup {<<x>> : x \in ItemIds}, c \in CategoryIds :
              handleItemSubmit(i, c, FALSE) => toast' = "error"
       /\ \A i \in ItemIds : handleDeleteItem(i, FALSE) => toast' = "error"
       /\ \A c \in CategoryIds : handleDeleteCategoryQuery(c, FALSE) => toast' = "error"
       /\ handleDeleteCategoryCommit(FALSE) => toast' = "error"]_vars

\* C28: after handleDeleteCategory(c) has completed no item references c.
C28_NoItemOfDeletedCategory ==
    \A c \in deletedCategories : ItemsOf(c) = {}

\* C25: a gift suggestion is claimed at most once: for every suggestion at
\* most one received gift and at most one gifted trousseau item are stored.
C25_SuggestionClaimedOnce ==
    \A x \in SuggestionIds :
        /\ Cardinality({g \in receivedGifts : g.suggestion = x}) <= 1
        /\ Cardinality({i \in homeTrousseauItems : i.suggestion = x}) <= 1

\* C26: a wedding has at most one category named "Presentes Recebidos".
C26_OneGiftCategory == Cardinality(giftCategories) <= 1

\* C27: a claim is all-or-nothing: after a submit that succeeded the gift,
\* the claimed flag and the trousseau item are all stored; after a submit
\* that failed none of them is and no category it created remains.
C27_ClaimAllOrNothing ==
    \A u \in Clients :
        /\ attempt[u].ended = "done" =>
               /\ \E g \in receivedGifts : g.id = DocId(u) /\ giftSuggestions[g.suggestion]
               /\ \E i \in homeTrousseauItems : i.id = DocId(u)
        /\ attempt[u].ended = "failed" =>
               /\ \A g \in receivedGifts : g.id # DocId(u)
               /\ \A i \in homeTrousseauItems : i.id # DocId(u)
               /\ Has(attempt[u].created) => Val(attempt[u].created) \notin giftCategories

\* C29: while the widget stays mounted, an active, not-deleted campaign whose
\* trigger date has passed is in the displayed feed by the time the clock has
\* run out, whether or not a snapshot arrived in between.
C29_DueCampaignAppears ==
    (now = MaxTime /\ ~loading) =>
        \A c \in Campaigns :
            (/\ c.isActive
             /\ ~Flag(userStates, c.id, "deleted")
             /\ Has(ProfileCreatedAt)
             /\ Has(triggerDate(c))
             /\ Val(triggerDate(c)) < now)
            => c.id \in FeedIds

====
